---- MODULE Spec2Model ----
(***************************************************************************)
(* Model of the brain-tumour inference path of NeuroView-Backend:          *)
(* app/services/ml_prediction_service.py (MLPredictionService and the      *)
(* module-level ml_service instance).                                      *)
(*                                                                         *)
(* Numbers.  numpy floats are modelled in fixed point: activations and     *)
(* logits are integers in units of 1/Q, probabilities are integers in      *)
(* units of 1/PScale, and exp is a table of e^-k interpolated linearly in  *)
(* the fractional part.  Weights and biases of the bundles are integers.   *)
(* Arrays are two-dimensional: a matrix is a sequence of rows.             *)
(***************************************************************************)
EXTENDS Integers, Sequences, FiniteSets, TLC

\* ------------------------------------------------------------------ bounds
\* The image is resized to Side x Side (32 x 32 in the source).
Side == 2
\* Width of the two hidden layers of the bundles that are explored.
Hidden == 2
\* Number of prediction requests that may be in flight at the same time.
NReq == 2

\* --------------------------------------------------------------- constants
\* 1 / alpha of _leaky_relu (alpha = 0.01)
AlphaInv == 100

FeatLen == Side * Side
\* fixed-point unit of activations and logits
Q == 100 * 100
\* fixed-point unit of exp values
EScale == 100 * 1000
\* fixed-point unit of probabilities
PScale == 1000 * 1000
\* 1e-5 in units of 1/PScale
Tol == PScale \div (100 * 1000)

\* -------------------------------------------------------------- exceptions
\* A computation either yields a value or raises: [ok, val, err].
Ok(v) == [ok |-> TRUE, val |-> v, err |-> ""]
Raise(msg) == [ok |-> FALSE, val |-> <<>>, err |-> msg]

\* ------------------------------------------------------------------ arrays
Rows(M) == Len(M)
Cols(M) == Len(M[1])
RECURSIVE SumSeq(_)
SumSeq(s) == IF s = <<>> THEN 0 ELSE Head(s) + SumSeq(Tail(s))

RECURSIVE MaxSeq(_)
MaxSeq(s) == IF Len(s) = 1 THEN s[1]
             ELSE LET m == MaxSeq(Tail(s)) IN IF s[1] >= m THEN s[1] ELSE m

\* list(M.flatten()): row-major
RECURSIVE Flatten(_)
Flatten(M) == IF M = <<>> THEN <<>> ELSE Head(M) \o Flatten(Tail(M))

\* the inner product taken with + in place of *: an entry of A that is zero
\* no longer removes its row of B from the result
MatMul_Sum(A, B) ==
    IF Cols(A) # Rows(B)
    THEN Raise("matmul: Input operand 1 has a mismatch in its core dimension 0")
    ELSE Ok([i \in 1..Rows(A) |-> [j \in 1..Cols(B) |->
                SumSeq([k \in 1..Cols(A) |-> A[i][k] + Q * B[k][j]])]])
\* A @ B with W integer and A in units of 1/Q; numpy raises ValueError when the
\* inner dimensions differ.
MatMul(A, B) ==
    IF Cols(A) # Rows(B)
    THEN Raise("matmul: Input operand 1 has a mismatch in its core dimension 0")
    ELSE Ok([i \in 1..Rows(A) |-> [j \in 1..Cols(B) |->
                SumSeq([k \in 1..Cols(A) |-> A[i][k] * B[k][j]])]])

\* numpy broadcasting of two 2-D shapes: each axis must agree or be 1.
Broadcastable(A, B) ==
    /\ Rows(A) = Rows(B) \/ Rows(A) = 1 \/ Rows(B) = 1
    /\ Cols(A) = Cols(B) \/ Cols(A) = 1 \/ Cols(B) = 1

Bmax(a, b) == IF a >= b THEN a ELSE b
Pick(M, i, j) == M[IF Rows(M) = 1 THEN 1 ELSE i][IF Cols(M) = 1 THEN 1 ELSE j]

\* Z + b with broadcasting; b holds integers, Z is in units of 1/Q.
AddBias(Z, b) ==
    IF ~Broadcastable(Z, b)
    THEN Raise("operands could not be broadcast together")
    ELSE Ok([i \in 1..Bmax(Rows(Z), Rows(b)) |-> [j \in 1..Bmax(Cols(Z), Cols(b)) |->
                Pick(Z, i, j) + Q * Pick(b, i, j)]])

\* ------------------------------------------------------------- activations
\* alpha * x for x <= 0, rounded towards zero in units of 1/Q
AlphaTimes(x) == -((-x) \div AlphaInv)

\* np.maximum(x, 0): the negative side cut off instead of leaking
LeakyOne_Relu(x) == IF x > 0 THEN x ELSE 0
\* np.where(x > 0, x, alpha * x), element-wise
LeakyOne(x) == IF x > 0 THEN x ELSE AlphaTimes(x)
_leaky_relu(Z) == [i \in 1..Rows(Z) |-> [j \in 1..Cols(Z) |-> LeakyOne(Z[i][j])]]

\* e^-k in units of 1/EScale, k = 0..12; 0 beyond (underflow)
ExpTab == <<100000, 36787, 13533, 4978, 1831, 673, 247, 91, 33, 12, 4, 1, 0>>
ExpAt(k) == IF k + 1 <= Len(ExpTab) THEN ExpTab[k + 1] ELSE 0

\* np.exp(-d / Q) for d >= 0, in units of 1/EScale
ExpNeg(d) ==
    LET k == d \div Q
        r == (d % Q) \div (Q \div 100)
    IN  ExpAt(k) - ((ExpAt(k) - ExpAt(k + 1)) * r) \div 100

\* floor(e * PScale / s) without leaving 32 bits
Ratio(e, s) ==
    LET q1 == (e * 1000) \div s
        r1 == (e * 1000) % s
    IN  q1 * 1000 + (r1 * 1000) \div s

\* x - np.max(x): the maximum taken over the whole array, not row by row
ExpArgs_GlobalMax(Z) ==
    LET m == MaxSeq(Flatten(Z))
    IN  [i \in 1..Rows(Z) |-> [j \in 1..Cols(Z) |-> Z[i][j] - m]]
\* x - np.max(x, axis=1, keepdims=True): the arguments of the exponential
ExpArgs(Z) ==
    [i \in 1..Rows(Z) |-> LET m == MaxSeq(Z[i]) IN [j \in 1..Cols(Z) |-> Z[i][j] - m]]

\* exp_vals = np.exp(x - np.max(x, axis=1, keepdims=True))
ExpVals(Z) ==
    LET D == ExpArgs(Z)
    IN  [i \in 1..Rows(Z) |-> [j \in 1..Cols(Z) |-> ExpNeg(-D[i][j])]]

\* exp_vals / np.sum(exp_vals, axis=1, keepdims=True)
_softmax_Unnormalised(Z) ==
    LET E == ExpVals(Z)
    IN  [i \in 1..Rows(Z) |-> [j \in 1..Cols(Z) |-> Ratio(E[i][j], EScale)]]
_softmax(Z) ==
    LET E == ExpVals(Z)
    IN  [i \in 1..Rows(Z) |-> [j \in 1..Cols(Z) |-> Ratio(E[i][j], SumSeq(E[i]))]]

\* ------------------------------------------------------------------ images
\* An input handed to predict_brain_tumor: raw bytes (decodable to an image or
\* not), an already decoded PIL image, or a value of any other type.  A decoded
\* image has a mode ("L" or "RGB") and a pixel grid; an RGB pixel is a triple.
Image(type, decodable, mode, px) ==
    [type |-> type, decodable |-> decodable, mode |-> mode, px |-> px]

\* bytes of a larger colour image
ImgColour == Image("bytes", TRUE, "RGB",
                   [i \in 1..(Side + 1) |-> [j \in 1..(Side + 1) |->
                       <<255 - 40 * i, 60 * j, 30 * (i + j)>>]])
\* a decoded single-pixel mid-gray PIL image
ImgGray == Image("Image", TRUE, "L", <<<<128>>>>)
\* bytes that are no image file
ImgMalformed == Image("bytes", FALSE, "L", <<>>)
\* neither bytes nor a PIL image (a str, a file object, ...)
ImgOtherType == Image("other", FALSE, "L", <<>>)

Inputs == {ImgColour, ImgGray, ImgMalformed, ImgOtherType}

\* img.convert("L"): ITU-R 601-2 luma transform of Pillow
Luma(p) == (p[1] * 19595 + p[2] * 38470 + p[3] * 7471 + 32768) \div 65536
ConvertL(img) ==
    IF img.mode = "L" THEN img.px
    ELSE [i \in 1..Rows(img.px) |-> [j \in 1..Cols(img.px) |-> Luma(img.px[i][j])]]

\* img.thumbnail((32, 32)): shrinks to fit and never enlarges, so a smaller
\* image keeps its size
Resize_Thumbnail(G) ==
    LET h == IF Rows(G) < Side THEN Rows(G) ELSE Side
        w == IF Cols(G) < Side THEN Cols(G) ELSE Side
    IN  [i \in 1..h |-> [j \in 1..w |->
            G[((2 * i - 1) * Rows(G)) \div (2 * h) + 1]
             [((2 * j - 1) * Cols(G)) \div (2 * w) + 1]]]
\* img.resize((32, 32)): always a Side x Side grid, whatever the source size.
\* Resampling is modelled as nearest neighbour.
Resize(G) ==
    [i \in 1..Side |-> [j \in 1..Side |->
        G[((2 * i - 1) * Rows(G)) \div (2 * Side) + 1]
         [((2 * j - 1) * Cols(G)) \div (2 * Side) + 1]]]

\* division rounded towards zero
DivT(a, b) == IF a >= 0 THEN a \div b ELSE -((-a) \div b)

\* scaler.transform(X) of a fitted StandardScaler: (X - mean_) / scale_, after
\* checking the number of features; the result is in units of 1/Q.
ScalerTransform(scaler, X) ==
    IF Cols(X) # Len(scaler.mean)
    THEN Raise("X has a different number of features than StandardScaler is expecting")
    ELSE Ok([i \in 1..Rows(X) |-> [j \in 1..Cols(X) |->
                DivT((X[i][j] - scaler.mean[j]) * Q, scaler.scale[j])]])

\* ------------------------------------------------------------ model object
\* What pickle.load returned: None, or a dict (a function from keys to arrays).
NoneObj == [kind |-> "None", d |-> <<>>]
Dict(d) == [kind |-> "dict", d |-> d]

\* self.model[key]
GetItem(m, key) ==
    IF m.kind = "None" THEN Raise("'NoneType' object is not subscriptable")
    ELSE IF key \notin DOMAIN m.d THEN Raise("'" \o key \o "'")
    ELSE Ok(m.d[key])

\* ------------------------------------------------------- _preprocess_image
\* lines 81-99, before the except clause
PreprocessBody(m, image_data) ==
    IF image_data.type = "other"
    THEN Raise("Invalid image data type. Expected bytes or PIL Image.")
    ELSE IF ~image_data.decodable
    THEN Raise("cannot identify image file")
    ELSE LET img_resized == Resize(ConvertL(image_data))
             img_array == Flatten(img_resized)
             scaler == GetItem(m, "scaler")
         IN  IF ~scaler.ok THEN scaler
             ELSE ScalerTransform(scaler.val, <<img_array>>)

\* lines 69-102 without the except clause of lines 101-102: the exception of
\* the failing statement leaves the method as it is
_preprocess_image_Unwrapped(m, image_data) == PreprocessBody(m, image_data)
_preprocess_image(m, image_data) ==
    LET r == PreprocessBody(m, image_data)
    IN  IF r.ok THEN r ELSE Raise("Image preprocessing failed: " \o r.err)

\* ----------------------------------------------------------- _forward_pass
FirstMissing(m, keys) ==
    LET bad == {i \in 1..Len(keys) : ~GetItem(m, keys[i]).ok}
    IN  IF bad = {} THEN 0 ELSE CHOOSE i \in bad : \A k \in bad : i <= k

\* Z = A @ W + b
Layer(A, W, b) ==
    LET P == MatMul(A, W) IN IF ~P.ok THEN P ELSE AddBias(P.val, b)

ParamKeys == <<"W1", "b1", "W2", "b2", "W3", "b3">>

\* lines 55-64: Z3, the input of the softmax
Logits(m, X) ==
    IF m.kind = "None" THEN Raise("Model not loaded. Cannot perform prediction.")
    ELSE LET miss == FirstMissing(m, ParamKeys) IN
    IF miss # 0 THEN Raise("'" \o ParamKeys[miss] \o "'")
    ELSE LET Z1 == Layer(X, m.d.W1, m.d.b1) IN
    IF ~Z1.ok THEN Z1
    ELSE LET Z2 == Layer(_leaky_relu(Z1.val), m.d.W2, m.d.b2) IN
    IF ~Z2.ok THEN Z2
    ELSE Layer(_leaky_relu(Z2.val), m.d.W3, m.d.b3)

_forward_pass(m, X) ==
    LET Z3 == Logits(m, X)
    IN  IF ~Z3.ok THEN Z3 ELSE Ok(_softmax(Z3.val))

\* ----------------------------------------------------- predict_brain_tumor
\* self.label_map of __init__: a dict with the keys 0..3
LabelNames == <<"glioma", "meningioma", "notumor", "pituitary">>
LabelMap == [k \in 0..(Len(LabelNames) - 1) |-> LabelNames[k + 1]]
NoLabels == [k \in {} |-> ""]

\* int(np.argmax(P)): index into the flattened array of the first maximum
ArgMax_Last(s) == (CHOOSE i \in 1..Len(s) :
                     /\ \A k \in 1..Len(s) : s[k] <= s[i]
                     /\ \A k \in (i + 1)..Len(s) : s[k] < s[i]) - 1
ArgMax(s) == (CHOOSE i \in 1..Len(s) :
                /\ \A k \in 1..Len(s) : s[k] <= s[i]
                /\ \A k \in 1..(i - 1) : s[k] < s[i]) - 1

\* float(np.max(P)): maximum over the whole array
Confidence(P) == MaxSeq(Flatten(P))

TwoDigits(n) == IF n < 10 THEN "0" \o ToString(n) ELSE ToString(n)
\* f'{confidence:.2%}' with confidence in units of 1/PScale
Percent(c) ==
    LET h == (c + 50) \div 100
    IN  ToString(h \div 100) \o "." \o TwoDigits(h % 100) \o "%"

\* A result dict; an absent key and None are the empty sequence, a present value
\* v is <<v>>; class_probabilities is the sequence of its (label, value) items.
Result(success, error, cls, tumor, conf, probs, cprobs, message) ==
    [success |-> success, error |-> error, predicted_class |-> cls,
     tumor_type |-> tumor, confidence |-> conf, probabilities |-> probs,
     class_probabilities |-> cprobs, message |-> message]

\* lines 120-138 with class_probabilities filled from the far end of the row:
\* probabilities[0][-1 - i] for the label of index i
FormatResult_Reversed(lm, P) ==
    LET predicted_class == ArgMax(Flatten(P))
        n == Cardinality(DOMAIN lm)
    IN  IF predicted_class \notin DOMAIN lm
        THEN Raise(ToString(predicted_class))
        ELSE IF n > Cols(P)
        THEN Raise("index " \o ToString(Cols(P)) \o " is out of bounds for axis 1")
        ELSE LET tumor_type == lm[predicted_class]
                 confidence == Confidence(P)
             IN  Ok(Result(TRUE, "", <<predicted_class>>, <<tumor_type>>, confidence,
                           P[1], [i \in 1..n |-> <<lm[i - 1], P[1][Cols(P) + 1 - i]>>],
                           "Brain scan classified as: " \o tumor_type
                               \o " (confidence: " \o Percent(confidence) \o ")"))

\* lines 120-138: the formatting of the probability array
FormatResult(lm, P) ==
    LET predicted_class == ArgMax(Flatten(P))
        n == Cardinality(DOMAIN lm)
    IN  IF predicted_class \notin DOMAIN lm
        THEN Raise(ToString(predicted_class))
        ELSE IF n > Cols(P)
        THEN Raise("index " \o ToString(Cols(P)) \o " is out of bounds for axis 1")
        ELSE LET tumor_type == lm[predicted_class]
                 confidence == Confidence(P)
             IN  Ok(Result(TRUE, "", <<predicted_class>>, <<tumor_type>>, confidence,
                           P[1], [i \in 1..n |-> <<lm[i - 1], P[1][i]>>],
                           "Brain scan classified as: " \o tumor_type
                               \o " (confidence: " \o Percent(confidence) \o ")"))

\* lines 140-149: the result built by the except clause
FailureResult(e) ==
    Result(FALSE, "Prediction failed: " \o e, <<>>, <<>>, 0, <<>>, <<>>, "")

\* predict_brain_tumor run without interruption on model m and label map lm
Predict(m, lm, image_data) ==
    LET X == _preprocess_image(m, image_data) IN
    IF ~X.ok THEN FailureResult(X.err)
    ELSE LET P == _forward_pass(m, X.val) IN
    IF ~P.ok THEN FailureResult(P.err)
    ELSE LET R == FormatResult(lm, P.val) IN
    IF ~R.ok THEN FailureResult(R.err) ELSE R.val

\* ----------------------------------------------------------- get_model_info
ModelInfo(m, lm) ==
    IF m.kind = "None"
    THEN [loaded |-> FALSE, error |-> "Model not loaded", output_classes |-> 0,
          class_labels |-> <<>>]
    ELSE [loaded |-> TRUE, error |-> "", output_classes |-> Cardinality(DOMAIN lm),
          class_labels |-> [i \in 1..Cardinality(DOMAIN lm) |-> lm[i - 1]]]

\* -------------------------------------------------------- model artifacts
\* weight and bias patterns
Pattern(p, i, j) ==
    CASE p = "zero" -> 0
      [] p = "one" -> 1
      [] p = "ident" -> IF i = j THEN 1 ELSE 0
      [] p = "alt" -> IF (i + j) % 2 = 0 THEN 1 ELSE -1
      [] p = "ramp" -> j - i
      [] p = "neg" -> -1
      [] p = "tie" -> IF j \in {2, 3} THEN 1 ELSE 0

\* an r x c array filled with pattern p
Mat(r, c, p) == [i \in 1..r |-> [j \in 1..c |-> Pattern(p, i, j)]]

StandardScaler(n) == [mean |-> [i \in 1..n |-> 128], scale |-> [i \in 1..n |-> 64]]

\* a dict with three weight matrices, three bias rows and a scaler, for n input
\* features and nOut outputs
Bundle(n, nOut, w, bh, b3) ==
    Dict([W1 |-> Mat(n, Hidden, w), b1 |-> Mat(1, Hidden, bh),
          W2 |-> Mat(Hidden, Hidden, w), b2 |-> Mat(1, Hidden, bh),
          W3 |-> Mat(Hidden, nOut, w), b3 |-> Mat(1, nOut, b3),
          scaler |-> StandardScaler(n)])

With(m, key, v) == Dict([m.d EXCEPT ![key] = v])
Without(m, key) == Dict([k \in DOMAIN m.d \ {key} |-> m.d[k]])

NOut == Len(LabelNames)
Base == Bundle(FeatLen, NOut, "alt", "zero", "ramp")

\* bundles of the documented shape
GoodBundles ==
    { Bundle(FeatLen, NOut, "zero", "zero", "zero"),
      Bundle(FeatLen, NOut, "ident", "zero", "zero"),
      Bundle(FeatLen, NOut, "zero", "zero", "tie"),
      Bundle(FeatLen, NOut, "ramp", "neg", "zero"),
      Bundle(FeatLen, NOut, "alt", "neg", "tie"),
      Base }

\* objects a pickle file can hold that are not bundles of the documented shape
OddBundles ==
    { NoneObj,
      Without(Base, "W3"),
      Without(Base, "scaler"),
      With(Base, "scaler", StandardScaler(FeatLen + 1)),
      With(Base, "W1", Mat(FeatLen + 1, Hidden, "alt")),
      With(Base, "W2", Mat(Hidden + 1, Hidden, "alt")),
      With(Base, "W3", Mat(Hidden + 1, NOut, "alt")),
      With(Base, "b1", Mat(1, Hidden + 1, "zero")),
      With(Base, "b2", Mat(1, 1, "one")),
      With(Base, "b3", Mat(2, NOut, "ramp")),
      Bundle(FeatLen, NOut + 1, "zero", "zero", "zero"),
      Bundle(FeatLen, NOut + 1, "alt", "zero", "ramp"),
      Bundle(FeatLen, NOut - 1, "alt", "zero", "ramp") }

\* the file ml_models/best_brain_nn_model.pkl: absent, not unpicklable, or the
\* pickle of an object
Artifact(state, obj) == [state |-> state, obj |-> obj]
Artifacts ==
    {Artifact("missing", NoneObj), Artifact("corrupt", NoneObj)}
        \cup {Artifact("pickle", o) : o \in GoodBundles \cup OddBundles}

HasParams(m) ==
    /\ m.kind = "dict"
    /\ \A k \in {"W1", "b1", "W2", "b2", "W3", "b3", "scaler"} : k \in DOMAIN m.d

IsRow(b, n) == Rows(b) = 1 /\ Cols(b) = n

\* every matrix and bias agrees with its neighbours and with the feature vector
ShapesAgree(m) ==
    /\ HasParams(m)
    /\ Len(m.d.scaler.mean) = FeatLen
    /\ Rows(m.d.W1) = FeatLen
    /\ IsRow(m.d.b1, Cols(m.d.W1))
    /\ Rows(m.d.W2) = Cols(m.d.W1)
    /\ IsRow(m.d.b2, Cols(m.d.W2))
    /\ Rows(m.d.W3) = Cols(m.d.W2)
    /\ IsRow(m.d.b3, Cols(m.d.W3))

ValidBundle(m) == ShapesAgree(m) /\ Cols(m.d.W3) = NOut

\* ----------------------------------------------------------- python values
\* Values decoded by response.json() and returned by the repository: None, a
\* list, a dict (a function from keys to values) or a string.
PyNone == [t |-> "None"]
PyList(items) == [t |-> "list", items |-> items]
PyDict(d) == [t |-> "dict", d |-> d]
PyStr(s) == [t |-> "str", s |-> s]

\* bool(v)
Truthy(v) ==
    CASE v.t = "None" -> FALSE
      [] v.t = "list" -> v.items # <<>>
      [] v.t = "dict" -> DOMAIN v.d # {}
      [] v.t = "str" -> v.s # ""

\* v.get('id'): the id, or "" when the dict has none (None in the source);
\* a value that is no dict has no get
GetId(v) ==
    IF v.t # "dict"
    THEN Raise("'" \o v.t \o "' object has no attribute 'get'")
    ELSE Ok(IF "id" \in DOMAIN v.d THEN v.d.id ELSE "")

\* a row of the images table as the REST API returns it; information is <<>>
\* (null) or <<the stored prediction>>
ImageRecord(id, information) ==
    PyDict([id |-> id, name |-> "scan", information |-> information])
RecordNoId == PyDict([name |-> "scan"])

\* -------------------------------------------------------------- remote calls
\* What a call of requests.post / patch / delete ends in: a RequestException,
\* or a response with a status code and a body that is JSON (val) or not.
TransportError == [kind |-> "error", status |-> 0, json |-> FALSE, val |-> PyNone]
Response(status, json, val) ==
    [kind |-> "response", status |-> status, json |-> json, val |-> val]

\* response.json()
ResponseJson(o) ==
    IF o.json THEN Ok(o.val) ELSE Raise("Expecting value: line 1 column 1 (char 0)")

\* data[0] if isinstance(data, list) and data else data
FirstOrSelf(v) == IF v.t = "list" /\ v.items # <<>> THEN v.items[1] ELSE v

\* the try block of a repository call that expects the given status code
RepositoryBody(o, expected) ==
    IF o.kind = "error" THEN Raise("RequestException")
    ELSE IF o.status # expected THEN Ok(PyNone)
    ELSE LET data == ResponseJson(o)
         IN  IF ~data.ok THEN data ELSE Ok(FirstOrSelf(data.val))

\* ImageModel.create_image(name, url) when the POST ends in outcome o
create_image(o) ==
    LET r == RepositoryBody(o, 201) IN IF r.ok THEN r ELSE Ok(PyNone)

\* update_image_information with only requests.RequestException caught: an
\* undecodable body raises out of the repository
update_image_information_TransportOnly(o) ==
    LET r == RepositoryBody(o, 200)
    IN  IF r.ok \/ o.kind # "error" THEN r ELSE Ok(PyNone)
\* ImageRepository.update_image_information(image_id, prediction_data) when the
\* PATCH ends in outcome o
update_image_information(o) ==
    LET r == RepositoryBody(o, 200) IN IF r.ok THEN r ELSE Ok(PyNone)

\* outcomes of the upload to the storage bucket
StorageOutcomes ==
    {TransportError} \cup {Response(c, FALSE, PyNone) : c \in {200, 201, 400}}

\* outcomes of the POST that inserts the images row
CreateOutcomes ==
    { TransportError,
      Response(500, FALSE, PyNone),
      Response(200, TRUE, PyList(<<ImageRecord("img-1", <<>>)>>)),
      Response(201, TRUE, PyList(<<ImageRecord("img-1", <<>>)>>)),
      Response(201, TRUE, ImageRecord("img-1", <<>>)),
      Response(201, TRUE, PyList(<<RecordNoId>>)),
      Response(201, TRUE, PyList(<<>>)),
      Response(201, TRUE, PyStr("created")),
      Response(201, FALSE, PyNone) }

\* outcomes of the PATCH that stores prediction p in the row with the given id
UpdateOutcomes(id, p) ==
    { TransportError,
      Response(404, TRUE, PyDict([message |-> "not found"])),
      Response(204, FALSE, PyNone),
      Response(200, TRUE, PyList(<<ImageRecord(id, <<p>>)>>)),
      Response(200, TRUE, ImageRecord(id, <<p>>)),
      Response(200, TRUE, PyList(<<>>)),
      Response(200, TRUE, PyNone),
      Response(200, TRUE, PyStr("ok")),
      Response(200, FALSE, PyNone) }

\* outcomes of the DELETE of the uploaded object
DeleteOutcomes == {TransportError, Response(200, FALSE, PyNone), Response(404, FALSE, PyNone)}

\* ------------------------------------------------------------ http requests
\* An uploaded file: its name, the part of the name after the last dot ("" when
\* there is none) and its content (<<>> for an empty file).
File(filename, extension, data) ==
    [filename |-> filename, extension |-> extension, data |-> data]
Files ==
    { File("scan.PNG", "PNG", <<ImgColour>>),
      File("scan.png", "png", <<ImgMalformed>>),
      File("scan.png", "png", <<>>),
      File("notes.txt", "txt", <<ImgColour>>),
      File("", "", <<ImgColour>>) }

\* str.lower() on the extensions that occur
Lower(s) == IF s = "PNG" THEN "png" ELSE s
AllowedExtensions == {"png", "jpg", "jpeg", "gif", "webp"}

\* A (result dict, status code) pair; an absent key is <<>>, a present value v
\* is <<v>>.
Reply(status, success, message, error, data, prediction, updated_image, warning, prediction_error) ==
    [status |-> status, success |-> success, message |-> message, error |-> error,
     data |-> data, prediction |-> prediction, updated_image |-> updated_image,
     warning |-> warning, prediction_error |-> prediction_error]
ErrorReply(status, error) ==
    Reply(status, FALSE, <<>>, <<error>>, <<>>, <<>>, <<>>, <<>>, <<>>)

\* the locals of the view and of the controllers it calls
Http(pc, route, file, upload_result, method, image_data, image_id, prediction_result, patch, updated_image, result, response) ==
    [pc |-> pc, route |-> route, file |-> file,
     upload_result |-> upload_result, method |-> method, image_data |-> image_data,
     image_id |-> image_id, prediction_result |-> prediction_result,
     patch |-> patch, updated_image |-> updated_image, result |-> result,
     response |-> response]
NoRequest == Http("idle", "", <<>>, <<>>, "", <<>>, "", <<>>, <<>>, <<>>, <<>>, <<>>)

\* the bucket holds so many uploaded objects; the images table holds the row
\* of this request or not
Remote(objects, record) == [objects |-> objects, record |-> record]

\* ------------------------------------------------------------------- state
VARIABLES
    artifact,      \* the model file on disk
    svc,           \* "absent" before app.services is imported, then "ready" or "failed"
    model,         \* ml_service.model
    label_map,     \* ml_service.label_map
    loads,         \* how many times _load_model has stored an unpickled object
    startup_error, \* the message of the exception that ended the import, or ""
    req,           \* the calls on ml_service in flight, with their locals
    remembered,    \* one earlier (input, result) pair kept for comparison
    between,       \* a call on another input has returned since that pair was kept
    http,          \* the HTTP request being served by the views, with its locals
    remote,        \* the hosted storage bucket and images table
    log            \* the stages and remote calls of that request, in order

vars == <<artifact, svc, model, label_map, loads, startup_error, req,
          remembered, between, http, remote, log>>

Requests == 1..NReq

\* the frame of a call: where it stands and the locals of predict_brain_tumor
Frame(pc, image_data, processed_image, probabilities, result, exc) ==
    [pc |-> pc, image_data |-> image_data, processed_image |-> processed_image,
     probabilities |-> probabilities, result |-> result, exc |-> exc]

Idle == Frame("idle", <<>>, <<>>, <<>>, <<>>, "")

Init ==
    /\ artifact \in Artifacts
    /\ svc = "absent"
    /\ model = NoneObj
    /\ label_map = NoLabels
    /\ loads = 0
    /\ startup_error = ""
    /\ req = [r \in Requests |-> Idle]
    /\ remembered = <<>>
    /\ between = FALSE
    /\ http = NoRequest
    /\ remote = Remote(0, <<>>)
    /\ log = <<>>

\* _load_model: the outcome of open() and pickle.load(), with the two except
\* clauses that re-raise
LoadModel(a) ==
    IF a.state = "missing"
    THEN Raise("ML model file not found. Please ensure the model is properly installed.")
    ELSE IF a.state = "corrupt"
    THEN Raise("Failed to load ML model: could not unpickle")
    ELSE Ok(a.obj)

\* ml_service = MLPredictionService(): __init__ and _load_model
Construct ==
    /\ svc = "absent"
    /\ LET l == LoadModel(artifact)
       IN  /\ label_map' = LabelMap
           /\ IF l.ok
              THEN /\ model' = l.val
                   /\ loads' = loads + 1
                   /\ svc' = "ready"
                   /\ startup_error' = ""
              ELSE /\ model' = NoneObj
                   /\ loads' = loads
                   /\ svc' = "failed"
                   /\ startup_error' = l.err
    /\ UNCHANGED <<artifact, req, remembered, between>>

\* lines 140-149: the except clause of predict_brain_tumor turns the exception
\* raised in frame f into a result
Handle_OnlyPreprocessing(f, e) ==
    IF f.pc = "idle"
    THEN [f EXCEPT !.pc = "done", !.result = <<FailureResult(e)>>]
    ELSE [f EXCEPT !.pc = "raised", !.exc = e]
Handle(f, e) == [f EXCEPT !.pc = "done", !.result = <<FailureResult(e)>>]

ServiceVars == <<artifact, svc, model, label_map, loads, startup_error>>

\* a call of predict_brain_tumor(image_data) up to line 116
Preprocess(r, image_data) ==
    /\ svc = "ready"
    /\ req[r].pc = "idle"
    /\ LET f == [req[r] EXCEPT !.image_data = <<image_data>>]
           X == _preprocess_image(model, image_data)
       IN  req' = [req EXCEPT ![r] =
                     IF X.ok THEN [f EXCEPT !.pc = "preprocessed",
                                            !.processed_image = X.val]
                     ELSE Handle(f, X.err)]
    /\ UNCHANGED <<ServiceVars, remembered, between>>

\* line 119, with the output bias zeroed in place once the logits are
\* computed (b3 *= 0 on the stored array)
ClearedBias(m) ==
    IF m.kind = "dict" /\ "b3" \in DOMAIN m.d
    THEN With(m, "b3", [i \in 1..Rows(m.d.b3) |-> [j \in 1..Cols(m.d.b3) |-> 0]])
    ELSE m
Forward_InPlace(r) ==
    /\ req[r].pc = "preprocessed"
    /\ LET P == _forward_pass(model, req[r].processed_image)
       IN  /\ req' = [req EXCEPT ![r] =
                        IF P.ok THEN [@ EXCEPT !.pc = "forwarded", !.probabilities = P.val]
                        ELSE Handle(@, P.err)]
           /\ model' = IF P.ok THEN ClearedBias(model) ELSE model
    /\ UNCHANGED <<artifact, svc, label_map, loads, startup_error, remembered, between>>

\* line 119, with the feature vector read from a buffer that all calls share:
\* the vector of any call that has preprocessed and not yet forwarded
Forward_SharedBuffer(r) ==
    /\ req[r].pc = "preprocessed"
    /\ \E q \in Requests :
         /\ req[q].pc = "preprocessed"
         /\ LET P == _forward_pass(model, req[q].processed_image)
            IN  req' = [req EXCEPT ![r] =
                          IF P.ok THEN [@ EXCEPT !.pc = "forwarded", !.probabilities = P.val]
                          ELSE Handle(@, P.err)]
    /\ UNCHANGED <<ServiceVars, remembered, between>>

\* line 119
Forward(r) ==
    /\ req[r].pc = "preprocessed"
    /\ LET P == _forward_pass(model, req[r].processed_image)
       IN  req' = [req EXCEPT ![r] =
                     IF P.ok THEN [@ EXCEPT !.pc = "forwarded", !.probabilities = P.val]
                     ELSE Handle(@, P.err)]
    /\ UNCHANGED <<ServiceVars, remembered, between>>

\* lines 120-138
Format(r) ==
    /\ req[r].pc = "forwarded"
    /\ LET R == FormatResult(label_map, req[r].probabilities)
       IN  req' = [req EXCEPT ![r] =
                     IF R.ok THEN [@ EXCEPT !.pc = "done", !.result = <<R.val>>]
                     ELSE Handle(@, R.err)]
    /\ UNCHANGED <<ServiceVars, remembered, between>>

\* the call returns its result to the caller and its frame is dropped
Return(r) ==
    /\ req[r].pc = "done"
    /\ req' = [req EXCEPT ![r] = Idle]
    /\ LET pair == [input |-> req[r].image_data[1], result |-> req[r].result[1]]
       IN  \/ /\ remembered = <<>>
              /\ remembered' = <<pair>>
              /\ between' = between
           \/ /\ remembered' = remembered
              /\ between' = (between \/ (remembered # <<>>
                                           /\ remembered[1].input # pair.input))
    /\ UNCHANGED ServiceVars

\* get_model_info() that loads the model file again before answering
GetModelInfo_Reload(r) ==
    /\ svc = "ready"
    /\ req[r].pc = "idle"
    /\ loads < 3
    /\ req' = [req EXCEPT ![r] = [@ EXCEPT !.pc = "info",
                                            !.result = <<ModelInfo(model, label_map)>>]]
    /\ loads' = loads + 1
    /\ UNCHANGED <<artifact, svc, model, label_map, startup_error, remembered, between>>

\* a call of get_model_info(), up to its return statement
GetModelInfo(r) ==
    /\ svc = "ready"
    /\ req[r].pc = "idle"
    /\ req' = [req EXCEPT ![r] = [@ EXCEPT !.pc = "info",
                                            !.result = <<ModelInfo(model, label_map)>>]]
    /\ UNCHANGED <<ServiceVars, remembered, between>>

\* get_model_info returns to its caller
ReturnInfo(r) ==
    /\ req[r].pc = "info"
    /\ req' = [req EXCEPT ![r] = Idle]
    /\ UNCHANGED <<ServiceVars, remembered, between>>

HttpVars == <<http, remote, log>>

Next ==
    \/ Construct /\ UNCHANGED HttpVars
    \/ (\E r \in Requests, i \in Inputs : Preprocess(r, i)) /\ UNCHANGED HttpVars
    \/ (\E r \in Requests : Forward(r)) /\ UNCHANGED HttpVars
    \/ (\E r \in Requests : Format(r)) /\ UNCHANGED HttpVars
    \/ (\E r \in Requests : Return(r)) /\ UNCHANGED HttpVars
    \/ (\E r \in Requests : GetModelInfo(r)) /\ UNCHANGED HttpVars
    \/ (\E r \in Requests : ReturnInfo(r)) /\ UNCHANGED HttpVars

Spec == Init /\ [][Next]_vars

\* The calls of a single caller that waits for each result before it calls
\* again: predict_brain_tumor applied to one input after the other, in frame 1.
NextOneCall ==
    \/ Construct /\ UNCHANGED HttpVars
    \/ (\E i \in Inputs : Preprocess(1, i)) /\ UNCHANGED HttpVars
    \/ Forward(1) /\ UNCHANGED HttpVars
    \/ Format(1) /\ UNCHANGED HttpVars
    \/ Return(1) /\ UNCHANGED HttpVars

SpecOneCall == Init /\ [][NextOneCall]_vars

\* ------------------------------------------------ views and controllers
\* One HTTP request served from its arrival at a view to the response, with
\* the calls to the storage bucket and to the images table of the hosted
\* service.  The call of ml_service.predict_brain_tumor runs in frame 1.
NotService == <<ServiceVars, req, remembered, between>>

Stored(o) == o.kind = "response" /\ o.status \in {200, 201}

\* image_views.py 40-47: _handle_upload_image takes the file of the request
\* and calls upload_image
HandleUploadImage(file) ==
    /\ svc = "ready"
    /\ http.pc = "idle"
    /\ http' = [NoRequest EXCEPT !.pc = "upload_image", !.route = "upload",
                                 !.file = <<file>>]
    /\ UNCHANGED <<remote, log, NotService>>

\* upload_controller.py 37-58: the checks of upload_image
UploadImage_Validate ==
    /\ http.pc = "upload_image"
    /\ LET file == http.file[1]
       IN  http' =
             IF file.filename = ""
             THEN [http EXCEPT !.pc = "upload_returned",
                     !.upload_result = <<ErrorReply(400, "No file provided")>>]
             ELSE IF Lower(file.extension) \notin AllowedExtensions
             THEN [http EXCEPT !.pc = "upload_returned",
                     !.upload_result = <<ErrorReply(400, "File type not allowed")>>]
             ELSE [http EXCEPT !.pc = "storage_post"]
    /\ UNCHANGED <<remote, log, NotService>>

\* upload_controller.py 60-79, 113-117: the upload to the bucket
UploadImage_StoragePost(o) ==
    /\ http.pc = "storage_post"
    /\ log' = Append(log, <<"storage_upload", Stored(o)>>)
    /\ remote' = IF Stored(o) THEN [remote EXCEPT !.objects = @ + 1] ELSE remote
    /\ http' =
         IF o.kind = "error"
         THEN [http EXCEPT !.pc = "upload_returned",
                 !.upload_result = <<ErrorReply(500, "Upload failed: RequestException")>>]
         ELSE IF o.status \notin {200, 201}
         THEN [http EXCEPT !.pc = "upload_returned",
                 !.upload_result = <<ErrorReply(500, "Failed to upload file: ")>>]
         ELSE [http EXCEPT !.pc = "create_image"]
    /\ UNCHANGED NotService

\* upload_controller.py 81-95 with ImageModel.create_image: the images row
UploadImage_CreateRecord(o) ==
    /\ http.pc = "create_image"
    /\ LET created_image == create_image(o)
       IN  /\ log' = Append(log, <<"create_record",
                                   created_image.ok /\ Truthy(created_image.val)>>)
           /\ http' =
                IF ~created_image.ok
                THEN [http EXCEPT !.pc = "upload_returned",
                        !.upload_result =
                           <<ErrorReply(500, "Upload failed: " \o created_image.err)>>]
                ELSE IF Truthy(created_image.val)
                THEN [http EXCEPT !.pc = "upload_returned",
                        !.upload_result =
                           <<Reply(201, TRUE, <<"Image uploaded and created successfully">>,
                                   <<>>, <<created_image.val>>, <<>>, <<>>, <<>>, <<>>)>>]
                ELSE [http EXCEPT !.pc = "cleanup"]
    /\ remote' = IF Stored(o)
                 THEN [remote EXCEPT !.record = <<ImageRecord("img-1", <<>>)>>]
                 ELSE remote
    /\ UNCHANGED NotService

\* upload_controller.py 96-111: the uploaded object is deleted, whatever the
\* delete ends in
UploadImage_Cleanup(o) ==
    /\ http.pc = "cleanup"
    /\ log' = Append(log, <<"storage_delete", o.kind = "response" /\ o.status = 200>>)
    /\ remote' = IF o.kind = "response" /\ o.status = 200
                 THEN [remote EXCEPT !.objects = @ - 1]
                 ELSE remote
    /\ http' = [http EXCEPT !.pc = "upload_returned",
                  !.upload_result =
                     <<ErrorReply(500, "Failed to create image record in database")>>]
    /\ UNCHANGED NotService

\* image_views.py 49-68, 90-94: the view after upload_image returned
HandleUploadImage_AfterUpload ==
    /\ http.pc = "upload_returned"
    /\ LET up == http.upload_result[1]
           image_id == GetId(up.data[1])
       IN  http' =
             IF up.status # 201
             THEN [http EXCEPT !.pc = "responded", !.response = <<up>>]
             ELSE IF ~image_id.ok
             THEN [http EXCEPT !.pc = "responded",
                     !.response = <<ErrorReply(500, "Upload or prediction failed: "
                                                       \o image_id.err)>>]
             ELSE IF image_id.val = ""
             THEN [http EXCEPT !.pc = "responded",
                     !.response =
                        <<Reply(201, TRUE,
                                <<"Image uploaded successfully, but no image ID returned">>,
                                <<>>, up.data, <<>>, <<>>,
                                <<"Could not run prediction without image ID">>, <<>>)>>]
             ELSE [http EXCEPT !.pc = "controller", !.method = "predict_and_save",
                     !.image_data = http.file[1].data, !.image_id = image_id.val]
    /\ UNCHANGED <<remote, log, NotService>>

\* image_views.py 97-124: _handle_predict_brain_tumor up to the call of the
\* controller; file is <<>> when the request has no 'file' part, image_id is ""
\* when the form has none.  The row the id names exists.
HandlePredictBrainTumor(file, image_id) ==
    /\ svc = "ready"
    /\ http.pc = "idle"
    /\ http' =
         IF file = <<>>
         THEN [NoRequest EXCEPT !.pc = "responded", !.route = "predict",
                 !.response = <<ErrorReply(400, "No file provided")>>]
         ELSE IF file[1].filename = ""
         THEN [NoRequest EXCEPT !.pc = "responded", !.route = "predict", !.file = file,
                 !.response = <<ErrorReply(400, "No file selected")>>]
         ELSE [NoRequest EXCEPT !.pc = "controller", !.route = "predict", !.file = file,
                 !.method = IF image_id # "" THEN "predict_and_save" ELSE "predict",
                 !.image_data = file[1].data, !.image_id = image_id]
    /\ remote' = IF image_id # ""
                 THEN Remote(0, <<ImageRecord(image_id, <<>>)>>)
                 ELSE remote
    /\ UNCHANGED <<log, NotService>>

\* image_controller.py 113-114, 175-176: predict_brain_tumor(image_data) or
\* predict_and_save_brain_tumor(image_data, image_id) called by any caller of
\* the controller; image_data is <<>> when it is empty or None, image_id is ""
\* when it is empty or None.  The row a non-empty id names exists.
CallController(method, image_data, image_id) ==
    /\ svc = "ready"
    /\ http.pc = "idle"
    /\ http' = [NoRequest EXCEPT !.pc = "controller", !.route = "direct",
                                 !.method = method, !.image_data = image_data,
                                 !.image_id = IF method = "predict_and_save"
                                              THEN image_id ELSE ""]
    /\ remote' = IF method = "predict_and_save" /\ image_id # ""
                 THEN Remote(0, <<ImageRecord(image_id, <<>>)>>)
                 ELSE remote
    /\ UNCHANGED <<log, NotService>>

\* lines 187-197 without the test of image_id
Controller_Validate_NoIdCheck ==
    /\ http.pc = "controller"
    /\ http' =
         IF http.image_data = <<>>
         THEN [http EXCEPT !.pc = "controller_returned",
                 !.result = <<ErrorReply(400, "Image data is required")>>]
         ELSE [http EXCEPT !.pc = "predicting"]
    /\ UNCHANGED <<remote, log, NotService>>

\* image_controller.py 124-128, 187-197: the checks of predict_brain_tumor and
\* predict_and_save_brain_tumor
Controller_Validate ==
    /\ http.pc = "controller"
    /\ http' =
         IF http.image_data = <<>>
         THEN [http EXCEPT !.pc = "controller_returned",
                 !.result = <<ErrorReply(400, "Image data is required")>>]
         ELSE IF http.method = "predict_and_save" /\ http.image_id = ""
         THEN [http EXCEPT !.pc = "controller_returned",
                 !.result = <<ErrorReply(400, "Image ID is required")>>]
         ELSE [http EXCEPT !.pc = "predicting"]
    /\ UNCHANGED <<remote, log, NotService>>

\* ml_service.predict_brain_tumor(image_data), stage by stage
Service_Preprocess ==
    /\ http.pc = "predicting"
    /\ Preprocess(1, http.image_data[1])
    /\ log' = Append(log, <<"preprocess", req'[1].pc = "preprocessed">>)
    /\ UNCHANGED <<http, remote>>

Service_Forward ==
    /\ http.pc = "predicting"
    /\ Forward(1)
    /\ log' = Append(log, <<"forward", req'[1].pc = "forwarded">>)
    /\ UNCHANGED <<http, remote>>

Service_Format ==
    /\ http.pc = "predicting"
    /\ Format(1)
    /\ log' = Append(log, <<"format", req'[1].result # <<>> /\ req'[1].result[1].success>>)
    /\ UNCHANGED <<http, remote>>

\* lines 201-205 without the test of line 203: the result is handed to the
\* repository whether the prediction succeeded or not
Controller_AfterPredict_SaveAlways ==
    /\ http.pc = "predicting"
    /\ req[1].pc = "done"
    /\ LET prediction_result == req[1].result[1]
       IN  http' =
             IF http.method = "predict"
             THEN [http EXCEPT !.pc = "controller_returned",
                     !.prediction_result = <<prediction_result>>,
                     !.result =
                        <<Reply(200, TRUE,
                                <<"Brain tumor prediction completed successfully">>,
                                <<>>, <<prediction_result>>, <<>>, <<>>, <<>>, <<>>)>>]
             ELSE [http EXCEPT !.pc = "saving",
                     !.prediction_result = <<prediction_result>>]
    /\ req' = [req EXCEPT ![1] = Idle]
    /\ UNCHANGED <<ServiceVars, remembered, between, remote, log>>

\* image_controller.py 132-144, 201-203, 222-226: the controller takes the
\* result of the service
Controller_AfterPredict ==
    /\ http.pc = "predicting"
    /\ req[1].pc = "done"
    /\ LET prediction_result == req[1].result[1]
       IN  http' =
             IF ~prediction_result.success
             THEN [http EXCEPT !.pc = "controller_returned",
                     !.prediction_result = <<prediction_result>>,
                     !.result = <<ErrorReply(500, prediction_result.error)>>]
             ELSE IF http.method = "predict"
             THEN [http EXCEPT !.pc = "controller_returned",
                     !.prediction_result = <<prediction_result>>,
                     !.result =
                        <<Reply(200, TRUE,
                                <<"Brain tumor prediction completed successfully">>,
                                <<>>, <<prediction_result>>, <<>>, <<>>, <<>>, <<>>)>>]
             ELSE [http EXCEPT !.pc = "saving",
                     !.prediction_result = <<prediction_result>>]
    /\ req' = [req EXCEPT ![1] = Idle]
    /\ UNCHANGED <<ServiceVars, remembered, between, remote, log>>

\* lines 207-221 with a failed save answered as an error
SaveReply_Error(prediction_result, updated_image) ==
    IF Truthy(updated_image)
    THEN Reply(200, TRUE, <<"Brain tumor prediction completed and saved successfully">>,
               <<>>, <<prediction_result>>, <<>>, <<updated_image>>, <<>>, <<>>)
    ELSE ErrorReply(500, "Prediction results could not be saved to database")
\* image_controller.py 207-221: the reply after the repository returned
SaveReply(prediction_result, updated_image) ==
    IF Truthy(updated_image)
    THEN Reply(200, TRUE, <<"Brain tumor prediction completed and saved successfully">>,
               <<>>, <<prediction_result>>, <<>>, <<updated_image>>, <<>>, <<>>)
    ELSE Reply(200, TRUE,
               <<"Brain tumor prediction completed but failed to save to database">>,
               <<>>, <<prediction_result>>, <<>>, <<>>,
               <<"Prediction results could not be saved to database">>, <<>>)

\* image_controller.py 205-221, 228-232: update_image_information and the
\* reply; the hosted service stores what a PATCH it answers 200 or 204 carries
Controller_Save ==
    /\ http.pc = "saving"
    /\ \E o \in UpdateOutcomes(http.image_id, http.prediction_result[1]) :
         LET updated_image == update_image_information(o)
         IN  /\ http' =
                  IF updated_image.ok
                  THEN [http EXCEPT !.pc = "controller_returned", !.patch = <<o>>,
                          !.updated_image = <<updated_image.val>>,
                          !.result = <<SaveReply(http.prediction_result[1],
                                                 updated_image.val)>>]
                  ELSE [http EXCEPT !.pc = "controller_returned", !.patch = <<o>>,
                          !.result = <<ErrorReply(500, "Internal error during prediction: "
                                                          \o updated_image.err)>>]
             /\ log' = Append(log, <<"save", updated_image.ok /\ Truthy(updated_image.val)>>)
             /\ remote' =
                  IF o.kind = "response" /\ o.status \in {200, 204} /\ remote.record # <<>>
                  THEN [remote EXCEPT !.record =
                          <<ImageRecord(http.image_id, http.prediction_result)>>]
                  ELSE remote
    /\ UNCHANGED NotService

\* the (result, status) pair is handed to the caller of the controller
CallController_Return ==
    /\ http.pc = "controller_returned"
    /\ http.route = "direct"
    /\ http' = [http EXCEPT !.pc = "responded", !.response = http.result]
    /\ UNCHANGED <<remote, log, NotService>>

\* image_views.py 126: the predict view returns what the controller returned
HandlePredictBrainTumor_Return ==
    /\ http.pc = "controller_returned"
    /\ http.route = "predict"
    /\ http' = [http EXCEPT !.pc = "responded", !.response = http.result]
    /\ UNCHANGED <<remote, log, NotService>>

\* lines 70-88 with a failed prediction answered as an error
HandleUploadImage_Return_Strict ==
    /\ http.pc = "controller_returned"
    /\ http.route = "upload"
    /\ LET r == http.result[1]
           up == http.upload_result[1]
       IN  http' = [http EXCEPT !.pc = "responded", !.response =
             IF r.status = 200 /\ r.success
             THEN <<Reply(201, TRUE,
                          <<"Image uploaded, analyzed, and prediction saved successfully">>,
                          <<>>, up.data, r.data, r.updated_image, <<>>, <<>>)>>
             ELSE <<r>>]
    /\ UNCHANGED <<remote, log, NotService>>

\* image_views.py 70-88: the upload view combines the upload and the prediction
HandleUploadImage_Return ==
    /\ http.pc = "controller_returned"
    /\ http.route = "upload"
    /\ LET r == http.result[1]
           up == http.upload_result[1]
       IN  http' = [http EXCEPT !.pc = "responded", !.response =
             IF r.status = 200 /\ r.success
             THEN <<Reply(201, TRUE,
                          <<"Image uploaded, analyzed, and prediction saved successfully">>,
                          <<>>, up.data, r.data, r.updated_image, <<>>, <<>>)>>
             ELSE <<Reply(201, TRUE,
                          <<"Image uploaded successfully, but prediction failed">>,
                          <<>>, up.data, <<>>, <<>>, <<>>,
                          IF r.error # <<>> THEN r.error ELSE <<"Prediction failed">>)>>]
    /\ UNCHANGED <<remote, log, NotService>>

NextHttp ==
    \/ Construct /\ UNCHANGED HttpVars
    \/ \E file \in Files : HandleUploadImage(file)
    \/ UploadImage_Validate
    \/ \E o \in StorageOutcomes : UploadImage_StoragePost(o)
    \/ \E o \in CreateOutcomes : UploadImage_CreateRecord(o)
    \/ \E o \in DeleteOutcomes : UploadImage_Cleanup(o)
    \/ HandleUploadImage_AfterUpload
    \/ \E file \in {<<>>} \cup {<<f>> : f \in Files}, image_id \in {"", "img-1"} :
          HandlePredictBrainTumor(file, image_id)
    \/ \E method \in {"predict", "predict_and_save"},
          image_data \in {<<>>} \cup {<<i>> : i \in Inputs},
          image_id \in {"", "img-1"} :
          CallController(method, image_data, image_id)
    \/ Controller_Validate
    \/ Service_Preprocess
    \/ Service_Forward
    \/ Service_Format
    \/ Controller_AfterPredict
    \/ Controller_Save
    \/ CallController_Return
    \/ HandlePredictBrainTumor_Return
    \/ HandleUploadImage_Return

SpecHttp == Init /\ [][NextHttp]_vars

\* ------------------------------------------------------------------ claims
Done(r) == req[r].pc = "done"
Res(r) == req[r].result[1]
Succeeded(r) == Done(r) /\ Res(r).success
Failed(r) == Done(r) /\ ~Res(r).success
In(r) == req[r].image_data[1]
ClassValues(res) == [i \in 1..Len(res.class_probabilities) |-> res.class_probabilities[i][2]]
Abs(n) == IF n >= 0 THEN n ELSE -n

\* C1: predict_brain_tumor never raises, and every result with success = false
\* carries a non-empty error message, no predicted class, no tumour type,
\* confidence 0.0 and empty probabilities and class_probabilities.
C1_AlwaysResult ==
    \A r \in Requests :
        /\ req[r].pc # "raised"
        /\ Failed(r) =>
              /\ Res(r).error # ""
              /\ Res(r).predicted_class = <<>>
              /\ Res(r).tumor_type = <<>>
              /\ Res(r).confidence = 0
              /\ Res(r).probabilities = <<>>
              /\ Res(r).class_probabilities = <<>>
        /\ Succeeded(r) => Res(r).error = ""

\* a failure met in the forward pass or in the formatting, after a successful
\* preprocessing, has become a result
C1_Witness ==
    \E r \in Requests : Failed(r) /\ req[r].processed_image # <<>>

\* C2: in every successful result the predicted class is the lowest index at
\* which the class probabilities are maximal, and the tumour type is the label
\* at that index in the order glioma, meningioma, notumor, pituitary.
C2_ArgMax ==
    \A r \in Requests : Succeeded(r) =>
        LET v == ClassValues(Res(r))
            c == Res(r).predicted_class[1]
        IN  /\ c + 1 \in 1..Len(v)
            /\ \A k \in 1..Len(v) : v[k] <= v[c + 1]
            /\ \A k \in 1..c : v[k] < v[c + 1]
            /\ Res(r).tumor_type =
                  <<(<<"glioma", "meningioma", "notumor", "pituitary">>)[c + 1]>>

\* a successful result whose maximum is attained at two indices, the lower of
\* them not the first
C2_Witness ==
    \E r \in Requests :
        /\ Succeeded(r)
        /\ Res(r).predicted_class[1] > 0
        /\ \E k \in 1..Len(ClassValues(Res(r))) :
              /\ k > Res(r).predicted_class[1] + 1
              /\ ClassValues(Res(r))[k] = Res(r).confidence

\* C3: with a bundle of the documented shape, the probabilities of a successful
\* result lie between 0 and 1 and sum to 1 within 1e-5.
C3_Probabilities ==
    \A r \in Requests : (Succeeded(r) /\ ValidBundle(model)) =>
        LET p == Res(r).probabilities
        IN  /\ \A i \in 1..Len(p) : 0 <= p[i] /\ p[i] <= PScale
            /\ Abs(SumSeq(p) - PScale) <= Tol

\* a successful result on a valid bundle with four different probabilities
\* whose rounded sum is not exactly 1
C3_Witness ==
    \E r \in Requests :
        /\ Succeeded(r)
        /\ ValidBundle(model)
        /\ Cardinality({Res(r).probabilities[i] : i \in 1..Len(Res(r).probabilities)}) = 4
        /\ SumSeq(Res(r).probabilities) # PScale

\* C4: the bundle is loaded once, at construction, and no call changes the
\* model or the label map afterwards.
C4_ModelReadOnly ==
    [][ /\ loads' <= 1
        /\ svc = "ready" => /\ model' = model
                            /\ label_map' = label_map
                            /\ loads' = loads
                            /\ svc' = "ready" ]_vars

\* a successful and a failed call and a get_model_info call have run on one
\* loaded model
C4_Witness ==
    /\ svc = "ready"
    /\ loads = 1
    /\ remembered # <<>>
    /\ remembered[1].result.success
    /\ \E r, q \in Requests : Failed(r) /\ req[q].pc = "info"

\* C5: a call on the same input as an earlier call gets the same result,
\* whatever calls ran in between.
C5_Deterministic ==
    \A r \in Requests :
        (Done(r) /\ remembered # <<>> /\ remembered[1].input = In(r))
            => Res(r) = remembered[1].result

\* the same decodable image has been predicted twice, with a call on another
\* input returning in between
C5_Witness ==
    \E r \in Requests :
        /\ Succeeded(r)
        /\ remembered # <<>>
        /\ remembered[1].input = In(r)
        /\ between

\* C6: under every interleaving, the result of a call equals the result of
\* the same call run alone on the loaded model.
C6_Independent ==
    \A r \in Requests :
        Done(r) => Res(r) = Predict(artifact.obj, LabelMap, In(r))

\* a call has finished while a call on another image was between its
\* preprocessing and its forward pass
C6_Witness ==
    \E r, q \in Requests :
        /\ Succeeded(r)
        /\ req[q].pc = "preprocessed"
        /\ req[q].image_data # req[r].image_data

\* C7: when the artifact is missing or does not hold the three weight
\* matrices, three bias vectors and the scaler, the service never becomes
\* ready and no call is served.
C7_MalformedNeverReady ==
    (artifact.state # "pickle" \/ ~HasParams(artifact.obj)) =>
        /\ svc # "ready"
        /\ \A r \in Requests : req[r].pc = "idle"

\* C8: a bundle whose shapes disagree (feature vector and W1, a layer and the
\* next matrix, a bias and its layer width) never yields a successful result.
C8_MismatchFails ==
    \A r \in Requests :
        (Done(r) /\ HasParams(model) /\ ~ShapesAgree(model)) => ~Res(r).success

\* C9: in every successful result the final layer has as many outputs as
\* there are labels, and class_probabilities covers every output.
C9_LabelsMatchOutputs ==
    \A r \in Requests : Succeeded(r) =>
        /\ Len(Res(r).probabilities) = Cardinality(DOMAIN label_map)
        /\ Len(Res(r).class_probabilities) = Len(Res(r).probabilities)

\* C10: the confidence of a successful result is the probability at the
\* predicted index and is at least 0.25.
C10_Confidence ==
    \A r \in Requests : Succeeded(r) =>
        /\ Res(r).confidence = Res(r).probabilities[Res(r).predicted_class[1] + 1]
        /\ 4 * Res(r).confidence >= PScale

\* the result of a call that failed in preprocessing for the given cause: the
\* message names the preprocessing stage
PreprocessingFailure(r, cause) ==
    /\ Failed(r)
    /\ Res(r).error = "Prediction failed: Image preprocessing failed: " \o cause
    /\ req[r].processed_image = <<>>
    /\ req[r].probabilities = <<>>

\* the scaler of the loaded model expects another number of features than the
\* Side x Side image has
ScalerMismatch ==
    /\ model.kind = "dict"
    /\ "scaler" \in DOMAIN model.d
    /\ Len(model.d.scaler.mean) # FeatLen

\* C11: a call ends as a failed result whose message names preprocessing as
\* the failing stage when the bytes cannot be decoded, when the input is
\* neither bytes nor a decoded image, and when the scaler rejects the
\* flattened image for its number of features.
C11_PreprocessingErrors ==
    \A r \in Requests : Done(r) =>
        /\ (In(r).type = "bytes" /\ ~In(r).decodable)
              => PreprocessingFailure(r, "cannot identify image file")
        /\ In(r).type = "other"
              => PreprocessingFailure(r,
                    "Invalid image data type. Expected bytes or PIL Image.")
        /\ (In(r).decodable /\ ScalerMismatch)
              => PreprocessingFailure(r,
                    "X has a different number of features than StandardScaler is expecting")

\* the three cases have each ended a call: a decodable image rejected by the
\* scaler, and on the same model undecodable bytes or an input of another type
C11_Witness ==
    \E r, q \in Requests :
        /\ Failed(r) /\ In(r).decodable /\ ScalerMismatch
        /\ Failed(q) /\ ~In(q).decodable

\* the forward pass as the documentation writes it, on one row x of features
\* and the arrays of bundle d
DocLeaky(x) == IF x > 0 THEN x ELSE -((-x) \div 100)
DocDense(a, W, b) ==
    [j \in 1..Len(b) |-> SumSeq([k \in 1..Len(a) |-> a[k] * W[k][j]]) + Q * b[j]]
DocZ1(d, x) == DocDense(x, d.W1, d.b1[1])
DocZ2(d, x) ==
    LET Z1 == DocZ1(d, x)
        A1 == [j \in 1..Len(Z1) |-> DocLeaky(Z1[j])]
    IN  DocDense(A1, d.W2, d.b2[1])
DocZ3(d, x) ==
    LET Z2 == DocZ2(d, x)
        A2 == [j \in 1..Len(Z2) |-> DocLeaky(Z2[j])]
    IN  DocDense(A2, d.W3, d.b3[1])
DocSoftmax(z) ==
    LET e == [j \in 1..Len(z) |-> ExpNeg(MaxSeq(z) - z[j])]
    IN  [j \in 1..Len(z) |-> Ratio(e[j], SumSeq(e))]

\* C14: on a bundle whose shapes agree the forward pass returns, and the
\* probabilities it returns are Softmax(Z3) with Z1 = X.W1 + b1,
\* A1 = LeakyReLU(Z1), Z2 = A1.W2 + b2, A2 = LeakyReLU(Z2), Z3 = A2.W3 + b3,
\* where LeakyReLU(x) is x for x > 0 and 0.01 x otherwise.
C14_ForwardPass ==
    \A r \in Requests :
        (req[r].processed_image # <<>> /\ req[r].pc # "preprocessed" /\ ShapesAgree(model))
            => req[r].probabilities =
                  <<DocSoftmax(DocZ3(model.d, req[r].processed_image[1]))>>

\* a forward pass has run whose first layer has a positive and a negative
\* pre-activation and whose second layer has a non-positive one
C14_Witness ==
    \E r \in Requests :
        /\ req[r].probabilities # <<>>
        /\ ShapesAgree(model)
        /\ LET Z1 == DocZ1(model.d, req[r].processed_image[1])
               Z2 == DocZ2(model.d, req[r].processed_image[1])
           IN  /\ \E j \in 1..Len(Z1) : Z1[j] < 0
               /\ \E j \in 1..Len(Z1) : Z1[j] > 0
               /\ \E j \in 1..Len(Z2) : Z2[j] <= 0

\* C15: class_probabilities of a successful result has the four labels glioma,
\* meningioma, notumor, pituitary in that order, and the value of the label at
\* index i is the i-th entry of the probabilities list.
C15_ClassProbabilities ==
    \A r \in Requests : Succeeded(r) =>
        LET cp == Res(r).class_probabilities
        IN  /\ [i \in 1..Len(cp) |-> cp[i][1]]
                  = <<"glioma", "meningioma", "notumor", "pituitary">>
            /\ \A i \in 1..Len(cp) : cp[i][2] = Res(r).probabilities[i]

\* a successful result whose four class probabilities all differ
C15_Witness ==
    \E r \in Requests :
        /\ Succeeded(r)
        /\ Cardinality({ClassValues(Res(r))[i] : i \in 1..4}) = 4

\* the scaler of the loaded model takes Side x Side features
ScalerFits ==
    /\ model.kind = "dict"
    /\ "scaler" \in DOMAIN model.d
    /\ Len(model.d.scaler.mean) = FeatLen

\* C16: for every decodable image, of any size and colour mode, the vector
\* handed to the scaler is the Side x Side grayscale grid flattened row by row
\* (Side * Side elements; 1024 in the source), and the scaled output is one
\* row of the same length.
C16_FeatureShape ==
    \A r \in Requests : (req[r].image_data # <<>> /\ In(r).decodable) =>
        LET G == Resize(ConvertL(In(r)))
            v == Flatten(G)
        IN  /\ Len(v) = Side * Side
            /\ \A i, j \in 1..Side : v[(i - 1) * Side + j] = G[i][j]
            /\ req[r].processed_image # <<>> =>
                   /\ Rows(req[r].processed_image) = 1
                   /\ Cols(req[r].processed_image) = Side * Side
            /\ ScalerFits => req[r].processed_image # <<>>

\* a colour image larger than Side x Side has been preprocessed after a call
\* on a single-pixel gray image succeeded
C16_Witness ==
    \E r \in Requests :
        /\ req[r].processed_image # <<>>
        /\ In(r).mode = "RGB" /\ Rows(In(r).px) > Side
        /\ remembered # <<>>
        /\ remembered[1].result.success
        /\ remembered[1].input.mode = "L" /\ Rows(remembered[1].input.px) < Side

\* the scaled feature vector of call r is all zero
ZeroFeatures(r) ==
    /\ req[r].processed_image # <<>>
    /\ \A j \in 1..Cols(req[r].processed_image) : req[r].processed_image[1][j] = 0

ZeroBiases(m) ==
    \A k \in {"b1", "b2", "b3"} : \A j \in 1..Cols(m.d[k]) : m.d[k][1][j] = 0

\* C17: on an all-zero scaled feature vector the probabilities do not depend
\* on W1 (a model with the same biases, W2 and W3 and any other W1 gives the
\* same output), and with all biases zero they are uniform over the four
\* classes.
C17_ZeroInput ==
    \A r \in Requests :
        (ZeroFeatures(r) /\ req[r].probabilities # <<>> /\ ValidBundle(model)) =>
            /\ \A p \in {"zero", "one", "ident", "alt", "ramp", "neg"} :
                  _forward_pass(With(model, "W1", Mat(FeatLen, Hidden, p)),
                                req[r].processed_image)
                      = Ok(req[r].probabilities)
            /\ ZeroBiases(model) =>
                  \A j \in 1..NOut : 4 * req[r].probabilities[1][j] = PScale

\* the forward pass has run on an all-zero feature vector with a bundle whose
\* biases are zero while its weights are not, and which answers another
\* input with other probabilities
C17_Witness ==
    \E r \in Requests :
        /\ ZeroFeatures(r)
        /\ req[r].probabilities # <<>>
        /\ ValidBundle(model)
        /\ ZeroBiases(model)
        /\ \E i \in 1..FeatLen, j \in 1..Hidden : model.d.W1[i][j] # 0
        /\ _forward_pass(model, _preprocess_image(model, ImgColour).val)
              # Ok(req[r].probabilities)

\* the array the softmax of call r was applied to
SoftmaxInput(r) == Logits(model, req[r].processed_image).val

\* C18: in every softmax that has run, the largest exponent argument of each
\* row is exactly 0, so every exponential lies in [0, 1] and the normalising
\* sum of each row lies between 1 and the row length; the probabilities are
\* the exponentials divided by that sum.
C18_SoftmaxStable ==
    \A r \in Requests : req[r].probabilities # <<>> =>
        LET Z == SoftmaxInput(r)
            D == ExpArgs(Z)
            E == ExpVals(Z)
        IN  /\ \A i \in 1..Rows(Z) :
                  /\ \A j \in 1..Cols(Z) : D[i][j] <= 0
                  /\ \E j \in 1..Cols(Z) : D[i][j] = 0
                  /\ \A j \in 1..Cols(Z) : 0 <= E[i][j] /\ E[i][j] <= EScale
                  /\ SumSeq(E[i]) >= EScale
                  /\ SumSeq(E[i]) <= Cols(Z) * EScale
            /\ req[r].probabilities =
                  [i \in 1..Rows(Z) |-> [j \in 1..Cols(Z) |->
                      Ratio(E[i][j], SumSeq(E[i]))]]

\* a softmax has run on an array of two rows with different maxima, one of
\* them positive and one of its entries negative
C18_Witness ==
    \E r \in Requests :
        /\ req[r].probabilities # <<>>
        /\ LET Z == SoftmaxInput(r)
           IN  /\ Rows(Z) > 1
               /\ MaxSeq(Z[1]) # MaxSeq(Z[2])
               /\ MaxSeq(Z[1]) > 0
               /\ \E i \in 1..Rows(Z), j \in 1..Cols(Z) : Z[i][j] < 0

\* the entries of the log with the given name
Entries(name) == {k \in 1..Len(log) : log[k][1] = name}

IsStage(e) == e[1] \in {"preprocess", "forward", "format", "save"}

\* C13: the stages of a request run in the order preprocess, forward pass,
\* format, save, each only after the one before it succeeded; the save is
\* attempted only with a result whose success is true, and the images row
\* never holds a failed prediction.
C13_StageOrder ==
    LET st == SelectSeq(log, IsStage)
    IN  /\ \A k \in 1..Len(st) :
              st[k][1] = (<<"preprocess", "forward", "format", "save">>)[k]
        /\ \A k \in 2..Len(st) : st[k - 1][2]
        /\ Entries("save") # {} =>
              /\ http.prediction_result # <<>>
              /\ http.prediction_result[1].success
        /\ http.pc = "saving" => http.prediction_result[1].success
        /\ remote.record # <<>> =>
              \/ remote.record[1].d.information = <<>>
              \/ remote.record[1].d.information[1].success

\* the four stages have run and the prediction is in the images row
C13_Witness ==
    /\ Len(SelectSeq(log, IsStage)) = 4
    /\ remote.record # <<>>
    /\ remote.record[1].d.information # <<>>

\* the repository reported no record for a prediction that had succeeded
SaveFailed ==
    /\ http.method = "predict_and_save"
    /\ http.result # <<>>
    /\ http.prediction_result # <<>>
    /\ http.prediction_result[1].success
    /\ http.updated_image = <<>> \/ ~Truthy(http.updated_image[1])

\* C19: when the prediction succeeds and the repository update returns no
\* record, predict_and_save_brain_tumor answers status 200 with success true,
\* the whole prediction as data and a warning; the update is attempted once.
C19_SaveFailureIsWarning ==
    /\ Cardinality(Entries("save")) <= 1
    /\ SaveFailed =>
          /\ http.result[1].status = 200
          /\ http.result[1].success
          /\ http.result[1].error = <<>>
          /\ http.result[1].data = http.prediction_result
          /\ http.result[1].warning # <<>>
          /\ Cardinality(Entries("save")) = 1
          /\ http.response # <<>> => http.response[1].success

\* the predict view has answered a request whose prediction succeeded and
\* whose PATCH ended in a transport error
C19_Witness ==
    /\ SaveFailed
    /\ http.route = "predict"
    /\ http.pc = "responded"
    /\ http.patch = <<TransportError>>

IsUploadStep(e) == e[1] \in {"storage_upload", "create_record", "preprocess", "save"}

\* the upload created a row with an id and the controller then answered
\* anything but a successful prediction
PredictionFailedAfterUpload ==
    /\ http.route = "upload"
    /\ http.result # <<>>
    /\ ~(http.result[1].status = 200 /\ http.result[1].success)

\* C20: in the upload flow the steps run in the order storage upload, record
\* creation, prediction, save; the record is created only after the storage
\* upload was answered 200 or 201; when the creation fails a delete of the
\* uploaded object is attempted, the response is an error with status 500 and
\* no prediction runs; when the record is created and the prediction fails
\* the record and the object are kept and the response is a success with
\* status 201.
C20_UploadFlow ==
    http.route = "upload" =>
        LET st == SelectSeq(log, IsUploadStep)
        IN  /\ \A k \in 1..Len(st) :
                  st[k][1] = (<<"storage_upload", "create_record", "preprocess", "save">>)[k]
            /\ Entries("create_record") # {} => log[1] = <<"storage_upload", TRUE>>
            /\ (\E k \in Entries("create_record") : ~log[k][2]) =>
                  /\ Entries("preprocess") = {}
                  /\ Entries("save") = {}
                  /\ http.pc \in {"upload_returned", "responded"} =>
                        Entries("storage_delete") # {}
                  /\ http.pc = "responded" =>
                        /\ http.response[1].status = 500
                        /\ ~http.response[1].success
            /\ (PredictionFailedAfterUpload /\ http.pc = "responded") =>
                  /\ http.response[1].status = 201
                  /\ http.response[1].success
                  /\ http.response[1].data = http.upload_result[1].data
                  /\ remote.record # <<>>
                  /\ remote.objects = 1
                  /\ Entries("storage_delete") = {}

\* an upload whose record was created has been answered after its prediction
\* failed in the service
C20_Witness ==
    /\ PredictionFailedAfterUpload
    /\ http.pc = "responded"
    /\ Entries("preprocess") # {}
    /\ http.prediction_result # <<>>
    /\ ~http.prediction_result[1].success

\* a controller entry point has been entered without image data, or
\* predict_and_save_brain_tumor without an image id
MissingInput ==
    /\ http.method # ""
    /\ \/ http.image_data = <<>>
       \/ http.method = "predict_and_save" /\ http.image_id = ""

\* the ML service or the repository has been called for this request
WorkDone ==
    \/ \E k \in 1..Len(log) : IsStage(log[k])
    \/ req[1].pc # "idle"
    \/ http.prediction_result # <<>>
    \/ http.patch # <<>>

\* C21: predict_brain_tumor with empty image data, and
\* predict_and_save_brain_tumor with empty image data or an empty image id,
\* answer success false with status 400 and call neither the ML service nor
\* the repository; with the input present a failed prediction is answered
\* with status 500 and a successful one with status 200.
C21_EntryPoints ==
    /\ MissingInput =>
          /\ ~WorkDone
          /\ http.pc \in {"controller", "controller_returned", "responded"}
          /\ http.result # <<>> =>
                /\ http.result[1].status = 400
                /\ ~http.result[1].success
                /\ http.result[1].error # <<>>
    /\ (http.method # "" /\ ~MissingInput /\ http.result # <<>>) =>
          /\ http.prediction_result # <<>>
          /\ http.prediction_result[1].success =>
                http.result[1].status = 200 /\ http.result[1].success
          /\ ~http.prediction_result[1].success =>
                /\ http.result[1].status = 500
                /\ ~http.result[1].success
                /\ http.result[1].error = <<http.prediction_result[1].error>>

\* predict_and_save_brain_tumor has answered a call that brought a decodable
\* image and no image id
C21_Witness ==
    /\ http.method = "predict_and_save"
    /\ http.image_data # <<>>
    /\ http.image_data[1].decodable
    /\ http.image_id = ""
    /\ http.pc = "responded"
    /\ http.response[1].status = 400
====
